---- MODULE Spec2Model ----
(***************************************************************************)
(* Model of the xpense tracker: the mini-Redux store (createStore,         *)
(* expenseReducer, initialState) and the page handlers that drive it       *)
(* (form submit, delete, undo, import, theme and filter controls).         *)
(*                                                                         *)
(* Spec       the page: one handler per action, run to completion, with    *)
(*            the page's single render listener.                           *)
(* StoreSpec  createStore on its own, with arbitrary listeners that may    *)
(*            dispatch, subscribe, unsubscribe or throw while notified.    *)
(***************************************************************************)
EXTENDS Integers, Sequences, FiniteSets, TLC

VARIABLES
    state,      \* createStore: let state
    storage,    \* localStorage['expense_tracker_state']: <<>> absent, <<json>> present
    undoShown,  \* undoContainer.innerHTML is the Undo button
    lastOp,     \* history variable: the handler that ran last and what it did
    prevOp,     \* history variable: the handler that ran before it
    trace,      \* history variable: every action handed to dispatch since boot
    bootDefault,\* history variable: the store booted from the hardcoded default
    steps,      \* history variable: number of handlers (Spec) or store calls (StoreSpec) so far
    listeners,  \* createStore: const listeners = []
    handles,    \* the unsubscribe functions subscribe has returned, and how often each was called
    stack,      \* the calls of dispatch in progress, innermost last
    impl,       \* which script runs: "modular" (store.js with app.js) or "combined" (main.js)
    clock,      \* new Date(): the current time, in half days
    shown,      \* what the page displays: the totals and the transaction list
    chart       \* chart-container: the data renderPieChart was given and what it drew

appVars == <<state, storage, undoShown, lastOp, prevOp, trace, bootDefault, steps>>
storeVars == <<listeners, handles, stack>>
viewVars == <<impl, clock, shown, chart>>
vars == <<state, storage, undoShown, lastOp, prevOp, trace, bootDefault, steps,
          listeners, handles, stack, impl, clock, shown, chart>>

-----------------------------------------------------------------------------
(* Bounds *)

\* Handlers run after boot.
MaxSteps == 3

\* Calls of dispatch, subscribe and unsubscribe functions made on a store.
MaxCalls == 5

\* Calls of dispatch nested in one another.
MaxDepth == 2

\* Calls of subscribe made on a store.
MaxHandles == 3

(* Program constants *)

\* .slice(0, 50) of the reducer
HISTORY_CAP == 50

-----------------------------------------------------------------------------
(* JavaScript values *)

Undefined == [k |-> "undefined"]
Null == [k |-> "null"]
Infinity == [k |-> "Infinity"]

\* A finite number held in a filter field.
Num(n) == [k |-> "num", v |-> n]

\* obj[key]: undefined when the object has no such property
Read(obj, key) == IF key \in DOMAIN obj THEN obj[key] ELSE Undefined

Transaction(id, description, amount, type, category, date) ==
    [k |-> "tx", id |-> id, description |-> description, amount |-> amount,
     type |-> type, category |-> category, date |-> date]

\* Text the code searches in is a sequence of characters.
Coffee == <<"C", "o", "f", "f", "e", "e">>
Rent == <<"r", "e", "n", "t">>
Salary == <<"S", "a", "l", "a", "r", "y">>

\* Records the form or an imported file can carry. T1b shares T1's id: an
\* import performs no de-duplication.
T1 == Transaction(1, Coffee, 5, "expense", "food", 0)
T1b == Transaction(1, Rent, 25, "expense", "rent", 0)
T2 == Transaction(2, Salary, 100, "income", "salary", 0)

\* Ids a delete can name; 3 is the id of no record.
Ids == {1, 2, 3}

\* Reading a property of null or undefined throws a TypeError.
PropertyReadThrows(v) == v.k \in {"undefined", "null"}

\* t.id
IdOf(t) == IF t.k = "tx" THEN t.id ELSE 0

Min(a, b) == IF a < b THEN a ELSE b

\* Array.prototype.map
Map(f(_), s) == IF Len(s) = 0 THEN <<>> ELSE [i \in 1..Len(s) |-> f(s[i])]

RECURSIVE Reverse(_)
Reverse(s) == IF s = <<>> THEN <<>> ELSE Reverse(Tail(s)) \o <<Head(s)>>

-----------------------------------------------------------------------------
(* expenseReducer *)

\* Array.prototype.slice(0, n)
Slice(s, n) == SubSeq(s, 1, Min(Len(s), n))

\* Array.prototype.find(t => t.id === id): the first match, else undefined
Find(txs, id) ==
    IF \E i \in 1..Len(txs) : IdOf(txs[i]) = id
    THEN txs[CHOOSE i \in 1..Len(txs) :
                /\ IdOf(txs[i]) = id
                /\ \A j \in 1..(i - 1) : IdOf(txs[j]) # id]
    ELSE Undefined

\* Mutant of FilterOut: removal by listeners-style splice(indexOf(found), 1),
\* which takes the last element when nothing is found.
FilterOutBySplice(txs, id) ==
    LET hit == IF \E i \in 1..Len(txs) : IdOf(txs[i]) = id
               THEN CHOOSE i \in 1..Len(txs) : IdOf(txs[i]) = id
               ELSE Len(txs)
    IN  SubSeq(txs, 1, hit - 1) \o SubSeq(txs, hit + 1, Len(txs))

\* Array.prototype.filter(t => t.id !== id)
FilterOut(txs, id) == SelectSeq(txs, LAMBDA t : IdOf(t) # id)

\* Mutant of PushHistory: at the cap the newest entry is the one dropped.
PushHistoryDropsNewest(entry, history) ==
    IF Len(history) >= HISTORY_CAP THEN history ELSE <<entry>> \o history

\* Mutant of PushHistory: the truncation is forgotten.
PushHistoryUncapped(entry, history) == <<entry>> \o history

\* [entry, ...history].slice(0, 50)
PushHistory(entry, history) == Slice(<<entry>> \o history, HISTORY_CAP)

\* Mutant of AddTransaction: the payload is appended, not prepended.
AddTransactionAppended(s, payload) ==
    [s EXCEPT !.transactions = s.transactions \o <<payload>>,
              !.history = Slice(<<[type |-> "ADD", data |-> payload]>> \o s.history,
                                HISTORY_CAP)]

\* case 'ADD_TRANSACTION'
AddTransaction(s, payload) ==
    [s EXCEPT !.transactions = <<payload>> \o s.transactions,
              !.history = PushHistory([type |-> "ADD", data |-> payload], s.history)]

\* Mutant of DeleteTransaction: the item is looked up in the list already
\* filtered, so it is never found.
DeleteTransactionFindsLate(s, payload) ==
    LET remaining == SelectSeq(s.transactions, LAMBDA t : IdOf(t) # payload)
        deletedItem == IF \E i \in 1..Len(remaining) : IdOf(remaining[i]) = payload
                       THEN remaining[1]
                       ELSE Undefined
    IN  [s EXCEPT !.transactions = remaining,
                  !.history = Slice(<<[type |-> "DELETE", data |-> deletedItem]>>
                                        \o s.history, HISTORY_CAP)]

\* case 'DELETE_TRANSACTION'
DeleteTransaction(s, payload) ==
    LET deletedItem == Find(s.transactions, payload)
    IN  [s EXCEPT !.transactions = FilterOut(s.transactions, payload),
                  !.history = PushHistory([type |-> "DELETE", data |-> deletedItem],
                                          s.history)]

\* Mutant of SetTheme: the filters are reset along with the theme.
SetThemeResetsFilters(s, payload) ==
    [s EXCEPT !.theme = payload,
              !.filters = [search |-> <<>>, category |-> "all", dateRange |-> "all"]]

\* case 'SET_THEME'
SetTheme(s, payload) == [s EXCEPT !.theme = payload]

\* Mutant of SetFilter: the payload replaces the filters.
SetFilterReplaces(s, payload) == [s EXCEPT !.filters = payload]

\* case 'SET_FILTER': { ...state.filters, ...action.payload }
SetFilter(s, payload) == [s EXCEPT !.filters = payload @@ s.filters]

\* case 'SET_CURRENCY'
SetCurrency(s, payload) == [s EXCEPT !.currency = payload]

\* The find and filter callbacks read t.id of every element they visit: filter
\* visits them all, so a null or undefined element makes the reducer throw.
ReducerThrows(s, action) ==
    /\ action.type = "DELETE_TRANSACTION"
    /\ \E i \in 1..Len(s.transactions) : PropertyReadThrows(s.transactions[i])

expenseReducer(s, action) ==
    CASE action.type = "ADD_TRANSACTION" -> AddTransaction(s, action.payload)
      [] action.type = "DELETE_TRANSACTION" -> DeleteTransaction(s, action.payload)
      [] action.type = "SET_THEME" -> SetTheme(s, action.payload)
      [] action.type = "SET_CURRENCY" -> SetCurrency(s, action.payload)
      [] action.type = "SET_FILTER" -> SetFilter(s, action.payload)
      [] OTHER -> s

\* expenseReducer of the combined script: the same cases, without SET_CURRENCY
expenseReducerCombined(s, action) ==
    CASE action.type = "ADD_TRANSACTION" -> AddTransaction(s, action.payload)
      [] action.type = "DELETE_TRANSACTION" -> DeleteTransaction(s, action.payload)
      [] action.type = "SET_THEME" -> SetTheme(s, action.payload)
      [] action.type = "SET_FILTER" -> SetFilter(s, action.payload)
      [] OTHER -> s

Impls == {"modular", "combined"}

\* The reducer the running script hands to createStore.
reducer(i, s, action) ==
    IF i = "modular" THEN expenseReducer(s, action) ELSE expenseReducerCombined(s, action)

Add(t) == [type |-> "ADD_TRANSACTION", payload |-> t]
Delete(id) == [type |-> "DELETE_TRANSACTION", payload |-> id]
SetThemeAction(theme) == [type |-> "SET_THEME", payload |-> theme]
SetCurrencyAction(code) == [type |-> "SET_CURRENCY", payload |-> code]
SetFilterAction(payload) == [type |-> "SET_FILTER", payload |-> payload]

-----------------------------------------------------------------------------
(* initialState and the persisted layout *)

defaultState ==
    [transactions |-> <<>>,
     history |-> <<>>,
     theme |-> "dark",
     currency |-> "USD",
     filters |-> [search |-> <<>>, category |-> "all", dateRange |-> "all"],
     persist |-> TRUE]

\* The default of the combined script: it also names the price bounds.
defaultStateCombined ==
    [defaultState EXCEPT
        !.filters = [search |-> <<>>, category |-> "all", dateRange |-> "all",
                     minPrice |-> Num(0), maxPrice |-> Infinity]]

\* Mutant of StringifyNumber: Infinity is written as a finite number.
StringifyNumberClamps(v) == IF v = Infinity THEN Num(50) ELSE v

\* JSON.stringify of a number: Infinity is written as null.
StringifyNumber(v) == IF v = Infinity THEN Null ELSE v

\* JSON.stringify(state.filters)
StringifyFilters(f) ==
    [key \in DOMAIN f |->
        IF key \in {"minPrice", "maxPrice"} THEN StringifyNumber(f[key]) ELSE f[key]]

\* JSON.stringify of an array element: undefined is written as null.
StringifyElement(v) == IF v = Undefined THEN Null ELSE v

\* JSON.stringify of a history entry: a property whose value is undefined is
\* left out.
StringifyEntry(e) ==
    IF e.data = Undefined THEN [type |-> e.type] ELSE [type |-> e.type, data |-> e.data]

\* JSON.stringify(state)
Stringify(s) ==
    [transactions |-> Map(StringifyElement, s.transactions),
     history |-> Map(StringifyEntry, s.history),
     theme |-> s.theme,
     currency |-> s.currency,
     filters |-> StringifyFilters(s.filters),
     persist |-> s.persist]

\* Reading .data of a parsed entry that has no such property gives undefined.
ParseEntry(j) ==
    [type |-> j.type, data |-> IF "data" \in DOMAIN j THEN j.data ELSE Undefined]

\* JSON.parse of the stored text
Parse(j) ==
    [transactions |-> j.transactions,
     history |-> Map(ParseEntry, j.history),
     theme |-> j.theme,
     currency |-> j.currency,
     filters |-> j.filters,
     persist |-> j.persist]

\* const savedState = JSON.parse(localStorage.getItem(...));
\* const initialState = savedState || { ... }
initialState(stored) == IF stored = <<>> THEN defaultState ELSE Parse(stored[1])

\* The same two lines of the combined script.
initialStateCombined(stored) ==
    IF stored = <<>> THEN defaultStateCombined ELSE Parse(stored[1])

initialStateOf(i, stored) ==
    IF i = "modular" THEN initialState(stored) ELSE initialStateCombined(stored)

-----------------------------------------------------------------------------
(* Rendering: renderDashboard and renderTransactions *)

\* Times are counted in half days from 1 December 2025, 00:00; a transaction's
\* date is the midnight that starts its day.
DayOf(time) == time \div 2

\* Date.prototype.getFullYear, on the two months the model's dates fall in
YearOf(time) == IF DayOf(time) < 31 THEN 2025 ELSE 2026

\* Date.prototype.getMonth
MonthOf(time) == IF DayOf(time) < 31 THEN 11 ELSE 0

\* new Date(now.setDate(now.getDate() - 7)): the same time of day, seven days back
WeekAgo(now) == now - 14

\* String.prototype.toLowerCase, on the letters the model's texts use
LowerOf(c) == CASE c = "C" -> "c" [] c = "S" -> "s" [] OTHER -> c
ToLowerCase(str) == Map(LowerOf, str)

\* String.prototype.includes
Includes(str, sub) ==
    \E i \in 0..(Len(str) - Len(sub)) : SubSeq(str, i + 1, i + Len(sub)) = sub

\* Mutant of Falsy: null counts as a bound.
FalsyButNull(v) == v \in {Undefined, Num(0)}

\* !v for the values a price bound can hold
Falsy(v) == v \in {Undefined, Null, Num(0)}

\* amount >= bound, amount a finite number
AtLeast(amount, bound) ==
    CASE bound.k = "num" -> amount >= bound.v
      [] bound.k = "null" -> amount >= 0
      [] OTHER -> FALSE

\* amount <= bound
AtMost(amount, bound) ==
    CASE bound.k = "num" -> amount <= bound.v
      [] bound.k = "null" -> amount <= 0
      [] bound.k = "Infinity" -> TRUE
      [] OTHER -> FALSE

matchesSearch(filters, t) ==
    Includes(ToLowerCase(t.description), ToLowerCase(filters.search))

matchesCategory(filters, t) ==
    IF filters.category = "all" THEN TRUE ELSE t.category = filters.category

matchesDate(filters, t, now) ==
    CASE filters.dateRange = "today" -> DayOf(t.date) = DayOf(now)
      [] filters.dateRange = "week" -> t.date >= WeekAgo(now)
      [] filters.dateRange = "month" ->
            MonthOf(t.date) = MonthOf(now) /\ YearOf(t.date) = YearOf(now)
      [] filters.dateRange = "year" -> YearOf(t.date) = YearOf(now)
      [] OTHER -> TRUE

matchesMin(filters, t) ==
    IF Falsy(Read(filters, "minPrice")) THEN TRUE
    ELSE AtLeast(t.amount, Read(filters, "minPrice"))

matchesMax(filters, t) ==
    IF Falsy(Read(filters, "maxPrice")) THEN TRUE
    ELSE AtMost(t.amount, Read(filters, "maxPrice"))

\* The callback of transactions.filter in renderTransactions
Matches(filters, t, now) ==
    /\ matchesSearch(filters, t)
    /\ matchesCategory(filters, t)
    /\ matchesDate(filters, t, now)
    /\ matchesMin(filters, t)
    /\ matchesMax(filters, t)

\* renderTransactions: the rows of transaction-list
renderTransactions(s, now) ==
    SelectSeq(s.transactions, LAMBDA t : Matches(s.filters, t, now))

\* .filter(t => t.type === type).reduce((acc, t) => acc + t.amount, 0)
RECURSIVE SumOfType(_, _)
SumOfType(txs, type) ==
    IF txs = <<>> THEN 0
    ELSE (IF Head(txs).type = type THEN Head(txs).amount ELSE 0)
         + SumOfType(Tail(txs), type)

\* Intl.NumberFormat with the store's currency: the text shows both
formatCurrency(s, amount) == [currency |-> s.currency, amount |-> amount]

\* renderDashboard: balance, income, expense
renderDashboard(s) ==
    LET income == SumOfType(s.transactions, "income")
        expense == SumOfType(s.transactions, "expense")
    IN  [balance |-> formatCurrency(s, income - expense),
         income |-> formatCurrency(s, income),
         expense |-> formatCurrency(s, expense)]

-----------------------------------------------------------------------------
(* renderPieChart *)

\* data.reduce((acc, curr) => acc + curr.value, 0)
RECURSIVE Total(_)
Total(data) == IF data = <<>> THEN 0 ELSE Head(data).value + Total(Tail(data))

\* One <path>. Angles are counted in units of 2 * Math.PI / total, so that
\* sliceAngle is slice.value and Math.PI is total / 2; (x, y) is the point of
\* the circle at an angle, the same for angles a whole turn apart.
Wedge(slice, total, cumulativeAngle) ==
    LET sliceAngle == slice.value
    IN  [label |-> slice.label,
         from |-> cumulativeAngle,
         to |-> cumulativeAngle + sliceAngle,
         xy1 |-> cumulativeAngle % total,
         xy2 |-> (cumulativeAngle + sliceAngle) % total,
         largeArcFlag |-> IF 2 * sliceAngle > total THEN 1 ELSE 0]

\* Mutant of Paths: the slices are drawn largest first.
RECURSIVE PathsSorted(_, _, _)
PathsSorted(data, total, cumulativeAngle) ==
    IF data = <<>> THEN <<>>
    ELSE LET big == CHOOSE i \in 1..Len(data) :
                        \A j \in 1..Len(data) :
                            \/ data[j].value < data[i].value
                            \/ (data[j].value = data[i].value /\ i <= j)
             rest == SubSeq(data, 1, big - 1) \o SubSeq(data, big + 1, Len(data))
         IN  <<Wedge(data[big], total, cumulativeAngle)>>
             \o PathsSorted(rest, total, cumulativeAngle + data[big].value)

\* data.forEach: one path per slice, cumulativeAngle += sliceAngle after each
RECURSIVE Paths(_, _, _)
Paths(data, total, cumulativeAngle) ==
    IF data = <<>> THEN <<>>
    ELSE <<Wedge(Head(data), total, cumulativeAngle)>>
         \o Paths(Tail(data), total, cumulativeAngle + Head(data).value)

\* Mutant of renderPieChart: the placeholder only for an empty input (a total
\* of zero is drawn as if it were one).
renderPieChartEmptyOnly(data) ==
    LET total == IF Total(data) = 0 THEN 1 ELSE Total(data)
    IN  IF Len(data) = 0
        THEN [placeholder |-> TRUE, total |-> 0, paths |-> <<>>]
        ELSE [placeholder |-> FALSE, total |-> total, paths |-> Paths(data, total, 0)]

\* renderPieChart: what it writes into the container
renderPieChart(data) ==
    LET total == Total(data)
    IN  IF total = 0
        THEN [placeholder |-> TRUE, total |-> 0, paths |-> <<>>]
        ELSE [placeholder |-> FALSE, total |-> total, paths |-> Paths(data, total, 0)]

ChartSlice(label, value) == [label |-> label, value |-> value]

\* expenses.reduce: acc[t.category] = (acc[t.category] || 0) + t.amount, the
\* keys kept in the order they were first set (Object.keys)
RECURSIVE categoryTotals(_, _)
categoryTotals(txs, acc) ==
    IF txs = <<>> THEN acc
    ELSE LET t == Head(txs)
             seen == \E i \in 1..Len(acc) : acc[i].label = t.category
             added == IF t.type # "expense" THEN acc
                      ELSE IF seen
                           THEN [i \in 1..Len(acc) |->
                                    IF acc[i].label = t.category
                                    THEN ChartSlice(acc[i].label, acc[i].value + t.amount)
                                    ELSE acc[i]]
                           ELSE Append(acc, ChartSlice(t.category, t.amount))
         IN  categoryTotals(Tail(txs), added)

\* renderCharts: the chart of the expenses by category
renderCharts(s) ==
    LET chartData == categoryTotals(s.transactions, <<>>)
    IN  [data |-> chartData, out |-> renderPieChart(chartData)]

\* chart-container before anything is drawn in it
EmptyContainer == [data |-> <<>>, out |-> [placeholder |-> FALSE, total |-> 0, paths |-> <<>>]]

\* What the page shows once renderDashboard and renderTransactions have run.
Rendered(s, now) == [totals |-> renderDashboard(s), list |-> renderTransactions(s, now)]

-----------------------------------------------------------------------------
(* createStore.dispatch with the page's one listener *)

\* The listener (renderDashboard, renderTransactions, renderUndo) reads t.type
\* of every transaction: a null or undefined element makes it throw.
RenderThrows(s) ==
    \E i \in 1..Len(s.transactions) : PropertyReadThrows(s.transactions[i])

\* renderUndo
renderUndo(s) == Len(s.history) > 0

\* What one call of dispatch did.
Dispatched(action, pre, post, threw) ==
    [action |-> action, pre |-> pre, post |-> post, threw |-> threw]

\* dispatch(action) on the world w = [state, storage, undoShown, threw, log]:
\* reducer, then the listener, then the write to localStorage; an exception
\* leaves through the first step that throws.
dispatch(w, action) ==
    IF ReducerThrows(w.state, action)
    THEN [w EXCEPT !.threw = TRUE,
                   !.log = Append(@, Dispatched(action, w.state, w.state, TRUE))]
    ELSE LET next == reducer(impl, w.state, action)
         IN  IF RenderThrows(next)
             THEN [w EXCEPT !.state = next,
                            !.threw = TRUE,
                            !.log = Append(@, Dispatched(action, w.state, next, TRUE))]
             ELSE [w EXCEPT !.state = next,
                            !.shown = Rendered(next, clock),
                            !.chart = renderCharts(next),
                            !.undoShown = renderUndo(next),
                            !.storage = IF next.persist THEN <<Stringify(next)>> ELSE @,
                            !.log = Append(@, Dispatched(action, w.state, next, FALSE))]

\* The world a handler starts in.
World == [state |-> state, storage |-> storage, undoShown |-> undoShown,
          shown |-> shown, chart |-> chart, threw |-> FALSE, log |-> <<>>]

\* A handler ends: the world it leaves, and the record of what it did.
Finish(op, arg, w, alert) ==
    /\ steps < MaxSteps
    /\ state' = w.state
    /\ storage' = w.storage
    /\ undoShown' = w.undoShown
    /\ lastOp' = [op |-> op, arg |-> arg, pre |-> state, alert |-> alert,
                  threw |-> w.threw, log |-> w.log]
    /\ prevOp' = lastOp
    /\ trace' = trace \o Map(LAMBDA d : d.action, w.log)
    /\ bootDefault' = bootDefault
    /\ steps' = steps + 1
    /\ shown' = w.shown
    /\ chart' = w.chart
    /\ UNCHANGED <<impl, clock>>
    /\ UNCHANGED storeVars

-----------------------------------------------------------------------------
(* Imported files *)

FileText(syntax, kind, items) == [syntax |-> syntax, kind |-> kind, items |-> items]

\* Contents of a chosen file: text that is no JSON, JSON that is no array, and
\* arrays, one of them holding a null.
Files ==
    { FileText("invalid", "none", <<>>),
      FileText("valid", "object", <<>>),
      FileText("valid", "array", <<>>),
      FileText("valid", "array", <<T2>>),
      FileText("valid", "array", <<T1, T1b>>),
      FileText("valid", "array", <<T2, Null, T1>>) }

\* JSON.parse(event.target.result) throws a SyntaxError on text that is no JSON.
JSONParseThrows(file) == file.syntax = "invalid"

\* Array.isArray(transactions)
IsArray(file) == file.kind = "array"

\* Mutant of ImportEach: a record whose id the list already holds is left out.
RECURSIVE ImportEachNewIds(_, _)
ImportEachNewIds(w, items) ==
    IF items = <<>> THEN w
    ELSE IF \E i \in 1..Len(w.state.transactions) :
                IdOf(w.state.transactions[i]) = IdOf(Head(items))
         THEN ImportEachNewIds(w, Tail(items))
         ELSE LET r == dispatch(w, Add(Head(items)))
              IN  IF r.threw THEN r ELSE ImportEachNewIds(r, Tail(items))

\* transactions.forEach(t => store.dispatch({ type: 'ADD_TRANSACTION', payload: t }))
RECURSIVE ImportEach(_, _)
ImportEach(w, items) ==
    IF items = <<>> THEN w
    ELSE LET r == dispatch(w, Add(Head(items)))
         IN  IF r.threw THEN r ELSE ImportEach(r, Tail(items))

-----------------------------------------------------------------------------
(* Handlers of the page *)

\* An id Math.random has not handed out before.
FreshId(id) ==
    /\ \A i \in 1..Len(state.transactions) : IdOf(state.transactions[i]) # id
    /\ \A i \in 1..Len(state.history) : IdOf(state.history[i].data) # id

\* transactionForm submit
SubmitForm(t) ==
    /\ FreshId(t.id)
    /\ Finish("submit", t, dispatch(World, Add(t)), "none")

\* window.deleteTransaction
deleteTransaction(id) ==
    Finish("delete", id, dispatch(World, Delete(id)), "none")

\* window.undoLastAction
undoLastAction ==
    IF Len(state.history) = 0
    THEN Finish("undo", 0, World, "none")
    ELSE LET lastAction == state.history[1]
         IN  IF lastAction.type = "ADD"
             THEN IF PropertyReadThrows(lastAction.data)
                  THEN Finish("undo", 0, [World EXCEPT !.threw = TRUE], "none")
                  ELSE Finish("undo", 0, dispatch(World, Delete(lastAction.data.id)), "none")
             ELSE Finish("undo", 0, dispatch(World, Add(lastAction.data)), "none")

\* reader.onload of the import button
importFile(file) ==
    IF JSONParseThrows(file)
    THEN Finish("import", file, World, "Invalid file format.")
    ELSE IF IsArray(file)
         THEN LET r == ImportEach(World, file.items)
              IN  IF r.threw
                  THEN Finish("import", file, [r EXCEPT !.threw = FALSE],
                              "Invalid file format.")
                  ELSE Finish("import", file, r, "Transactions imported successfully!")
         ELSE Finish("import", file, World, "none")

\* themeToggle click
toggleTheme ==
    LET newTheme == IF state.theme = "dark" THEN "light" ELSE "dark"
    IN  Finish("theme", newTheme,
               dispatch(World, [type |-> "SET_THEME", payload |-> newTheme]), "none")

\* categoryFilter change
changeCategory(c) ==
    Finish("category", c,
           dispatch(World, [type |-> "SET_FILTER", payload |-> [category |-> c]]), "none")

\* The page is loaded again: the script runs from its first line, with what
\* localStorage holds, and renders the dashboard and the list (not the undo
\* control). The history variables start over, as at boot.
reload ==
    LET loaded == initialStateOf(impl, storage)
    IN  /\ steps < MaxSteps
        /\ state' = loaded
        /\ shown' = Rendered(loaded, clock)
        /\ chart' = renderCharts(loaded)
        /\ undoShown' = FALSE
        /\ lastOp' = [op |-> "reload", arg |-> 0, pre |-> state, alert |-> "none",
                      threw |-> FALSE, log |-> <<>>]
        /\ prevOp' = lastOp
        /\ trace' = <<>>
        /\ bootDefault' = (storage = <<>>)
        /\ steps' = steps + 1
        /\ UNCHANGED <<storage, impl, clock>>
        /\ UNCHANGED storeVars

-----------------------------------------------------------------------------
(* Boot *)

\* Action number j of a session that adds T1 and then clicks undo again and
\* again: undo never pops, so it re-adds and re-deletes T1 in turn.
ToggleEntry(j) == [type |-> IF j % 2 = 1 THEN "ADD" ELSE "DELETE", data |-> T1]

\* The state such a session holds after n actions, newest entry first.
ToggledState(n) ==
    [defaultState EXCEPT
        !.transactions = IF n % 2 = 1 THEN <<T1>> ELSE <<>>,
        !.history = [i \in 1..n |-> ToggleEntry(n + 1 - i)]]

\* The same session run by the combined script.
ToggledStateCombined(n) == [ToggledState(n) EXCEPT !.filters = defaultStateCombined.filters]

\* What an earlier session can have left in localStorage: nothing, or a state
\* it wrote, among them histories at and just under the cap.
StoredAtBoot ==
    { <<>> } \cup { <<Stringify(ToggledState(n))>> : n \in {1, HISTORY_CAP - 1, HISTORY_CAP} }

StoredAtBootCombined ==
    { <<>> } \cup { <<Stringify(ToggledStateCombined(n))>> : n \in {1, HISTORY_CAP} }

\* The moment the page is rendered: noon of 8 December 2025.
PageTime == 15

Init ==
    \E i \in Impls :
    \E stored \in (IF i = "modular" THEN StoredAtBoot ELSE StoredAtBootCombined) :
        /\ impl = i
        /\ clock = PageTime
        /\ shown = Rendered(initialStateOf(i, stored), PageTime)
        /\ chart = renderCharts(initialStateOf(i, stored))
        /\ storage = stored
        /\ state = initialStateOf(i, stored)
        /\ undoShown = FALSE
        /\ lastOp = [op |-> "boot", arg |-> 0, pre |-> initialStateOf(i, stored),
                     alert |-> "none", threw |-> FALSE, log |-> <<>>]
        /\ prevOp = lastOp
        /\ trace = <<>>
        /\ bootDefault = (stored = <<>>)
        /\ steps = 0
        /\ listeners = <<"render">>
        /\ handles = <<[listener |-> "render", calls |-> 0]>>
        /\ stack = <<>>

Next ==
    \/ \E t \in {T1, T2} : SubmitForm(t)
    \/ \E id \in Ids : deleteTransaction(id)
    \/ undoLastAction
    \/ \E file \in Files : importFile(file)
    \/ toggleTheme
    \/ \E c \in {"all", "food"} : changeCategory(c)
    \/ reload

Spec == Init /\ [][Next]_vars

-----------------------------------------------------------------------------
(* The filter controls, on a page that holds transactions *)

NaN == [k |-> "NaN"]

\* parseFloat(e.target.value) || 0
MinPriceOf(parsed) == IF parsed \in {NaN, Num(0)} THEN Num(0) ELSE parsed

\* parseFloat(e.target.value) || Infinity
MaxPriceOf(parsed) == IF parsed \in {NaN, Num(0)} THEN Infinity ELSE parsed

\* searchInput input
searchInput(text) ==
    Finish("search", text, dispatch(World, SetFilterAction([search |-> text])), "none")

\* dateFilter change
changeDateRange(range) ==
    Finish("date", range, dispatch(World, SetFilterAction([dateRange |-> range])), "none")

\* minPriceInput input
minPriceInput(parsed) ==
    Finish("min", parsed,
           dispatch(World, SetFilterAction([minPrice |-> MinPriceOf(parsed)])), "none")

\* maxPriceInput input
maxPriceInput(parsed) ==
    Finish("max", parsed,
           dispatch(World, SetFilterAction([maxPrice |-> MaxPriceOf(parsed)])), "none")

\* Records of an earlier session: 1 December, 8 December and 31 December 2025.
L1 == Transaction(1, Coffee, 5, "expense", "food", 0)
L2 == Transaction(4, Rent, 25, "expense", "rent", 14)
L3 == Transaction(2, Salary, 100, "income", "salary", 60)

\* The state that session left, by the script that ran it.
Ledger(i) ==
    [initialStateOf(i, <<>>) EXCEPT
        !.transactions = <<L3, L2, L1>>,
        !.history = <<[type |-> "ADD", data |-> L3], [type |-> "ADD", data |-> L2],
                      [type |-> "ADD", data |-> L1]>>]

\* new Date() when the page is used: 8 December 2025 at 00:00 and at 12:00,
\* 2 January 2026 at 00:00.
Clocks == {14, 15, 64}

ViewInit ==
    \E i \in Impls, now \in Clocks :
        /\ impl = i
        /\ clock = now
        /\ storage = <<Stringify(Ledger(i))>>
        /\ state = initialStateOf(i, storage)
        /\ shown = Rendered(state, now)
        /\ chart = renderCharts(state)
        /\ undoShown = FALSE
        /\ lastOp = [op |-> "boot", arg |-> 0, pre |-> state,
                     alert |-> "none", threw |-> FALSE, log |-> <<>>]
        /\ prevOp = lastOp
        /\ trace = <<>>
        /\ bootDefault = FALSE
        /\ steps = 0
        /\ listeners = <<"render">>
        /\ handles = <<[listener |-> "render", calls |-> 0]>>
        /\ stack = <<>>

ViewNext ==
    \/ \E text \in {<<>>, <<"C", "o", "f">>} : searchInput(text)
    \/ \E c \in {"all", "food"} : changeCategory(c)
    \/ \E range \in {"all", "today", "week", "month", "year"} : changeDateRange(range)
    \/ \E parsed \in {NaN, Num(10)} : minPriceInput(parsed)
    \/ \E parsed \in {Num(0), Num(50)} : maxPriceInput(parsed)
    \/ reload

ViewSpec == ViewInit /\ [][ViewNext]_vars

-----------------------------------------------------------------------------
(* renderPieChart on its own *)

\* Slices handed to renderPieChart.
MaxSlices == 3

\* The largest value of a slice.
MaxValue == 4

\* The data arrays: slice number i is labelled i.
ChartData ==
    { <<>> } \cup
    UNION { { [i \in 1..n |-> ChartSlice(i, values[i])] : values \in [1..n -> 0..MaxValue] }
            : n \in 1..MaxSlices }

\* renderPieChart('chart-container', data)
drawChart(data) ==
    /\ chart' = [data |-> data, out |-> renderPieChart(data)]
    /\ lastOp' = [op |-> "chart", arg |-> 0]
    /\ UNCHANGED <<state, storage, undoShown, prevOp, trace, bootDefault, steps, impl, clock,
                   shown>>
    /\ UNCHANGED storeVars

ChartInit ==
    /\ chart = EmptyContainer
    /\ lastOp = [op |-> "boot", arg |-> 0]
    /\ prevOp = lastOp
    /\ state = defaultState
    /\ storage = <<>>
    /\ undoShown = FALSE
    /\ trace = <<>>
    /\ bootDefault = TRUE
    /\ steps = 0
    /\ impl = "modular"
    /\ clock = 0
    /\ shown = Rendered(defaultState, 0)
    /\ listeners = <<>>
    /\ handles = <<>>
    /\ stack = <<>>

ChartNext == \E data \in ChartData : drawChart(data)

ChartSpec == ChartInit /\ [][ChartNext]_vars

-----------------------------------------------------------------------------
(* expenseReducer on its own, in both scripts *)

\* Calls of the reducer.
MaxReduce == 3

\* An action of a kind the reducer does not know.
Unknown == [type |-> "PING", payload |-> 0]

\* Payloads the filter controls send.
FilterPayloads ==
    { [category |-> "food"],
      [search |-> <<"c", "o", "f", "f", "e", "e">>],
      [dateRange |-> "week"],
      [minPrice |-> Num(10)],
      [maxPrice |-> Num(50)] }

\* state = reducer(state, action)
Reduce(action) ==
    /\ steps < MaxReduce
    /\ ~ReducerThrows(state, action)
    /\ state' = reducer(impl, state, action)
    /\ lastOp' = [op |-> "reduce", arg |-> action, pre |-> state]
    /\ prevOp' = lastOp
    /\ steps' = steps + 1
    /\ UNCHANGED <<storage, undoShown, trace, bootDefault, impl, clock, shown, chart>>
    /\ UNCHANGED storeVars

ReducerInit ==
    \E i \in Impls, persist \in BOOLEAN :
        /\ impl = i
        /\ state = [initialStateOf(i, <<>>) EXCEPT !.persist = persist]
        /\ storage = <<>>
        /\ undoShown = FALSE
        /\ lastOp = [op |-> "boot", arg |-> Unknown, pre |-> state]
        /\ prevOp = lastOp
        /\ trace = <<>>
        /\ bootDefault = TRUE
        /\ steps = 0
        /\ listeners = <<>>
        /\ handles = <<>>
        /\ stack = <<>>
        /\ clock = 0
        /\ shown = Rendered(defaultState, 0)
        /\ chart = EmptyContainer

ReducerNext ==
    \/ \E t \in {T1, T2} : Reduce(Add(t))
    \/ \E id \in {1, 3} : Reduce(Delete(id))
    \/ \E theme \in {"light", "dark"} : Reduce(SetThemeAction(theme))
    \/ \E code \in {"USD", "EUR"} : Reduce(SetCurrencyAction(code))
    \/ \E payload \in FilterPayloads : Reduce(SetFilterAction(payload))
    \/ Reduce(Unknown)

ReducerSpec == ReducerInit /\ [][ReducerNext]_vars

-----------------------------------------------------------------------------
(* createStore on its own: any listeners, re-entrant calls *)

ListenerNames == {"A", "B"}

NoFrame == [at |-> "none"]

\* One call of dispatch in progress: its place in listeners.forEach (i
\* elements visited of the len the array had when forEach began, at "loop"
\* between two callbacks or at "listener" inside one), and what has happened
\* during it: parentAt is how many listeners the calling dispatch had invoked
\* when this call was made, inner the calls of dispatch that returned to it,
\* events the subscribe and unsubscribe calls made during it.
Frame(action, pre, next) ==
    [action |-> action, pre |-> pre, next |-> next, storageAtCall |-> storage,
     registered |-> listeners, len |-> Len(listeners), i |-> 0, at |-> "loop",
     called |-> <<>>, seen |-> <<>>, disturbed |-> FALSE, nested |-> FALSE,
     parentAt |-> IF Len(stack) = 0 THEN 0 ELSE stack[Len(stack)].i,
     inner |-> <<>>, events |-> <<>>]

Top == stack[Len(stack)]
SetTop(f) == [stack EXCEPT ![Len(stack)] = f]
Pop == SubSeq(stack, 1, Len(stack) - 1)

\* Mutant of Call: the dispatch is queued behind the one in progress.
CallQueued(st, frame) == <<frame>> \o st

\* A call of dispatch is an ordinary function call: its frame goes on top of
\* the caller's, which waits inside its listener.
Call(st, frame) == Append(st, frame)

\* The call on top returns to the dispatch that made it, if any.
Return(current) ==
    LET done == Top
        rest == Pop
    IN  IF Len(rest) = 0 THEN rest
        ELSE [rest EXCEPT ![Len(rest)].inner =
                 Append(@, [startedAt |-> done.parentAt, endedAt |-> rest[Len(rest)].i,
                            pass |-> done.i, len |-> done.len, state |-> current])]

\* Code can call the store when no dispatch is in progress, or from inside the
\* listener that is being notified.
CanCall == IF Len(stack) = 0 THEN TRUE ELSE Top.at = "listener"

\* The record of a store call or step.
StoreOp(op, handle, nth, before, frame) ==
    [op |-> op, handle |-> handle, nth |-> nth, before |-> before, frame |-> frame]

\* Array.prototype.indexOf: the first index (from 0) of x, or -1
IndexOf(s, x) ==
    IF \E i \in 1..Len(s) : s[i] = x
    THEN (CHOOSE i \in 1..Len(s) : s[i] = x /\ \A j \in 1..(i - 1) : s[j] # x) - 1
    ELSE -1

\* Array.prototype.splice(index, 1): a negative index counts from the end
Splice(s, index) ==
    LET start == IF index < 0
                 THEN (IF Len(s) + index < 0 THEN 0 ELSE Len(s) + index)
                 ELSE Min(index, Len(s))
    IN  IF start < Len(s)
        THEN SubSeq(s, 1, start) \o SubSeq(s, start + 2, Len(s))
        ELSE s

\* The unsubscribe function returned for listener
Unsubscribed(ls, listener) == Splice(ls, IndexOf(ls, listener))

\* Mutant of ListenerAt: the array is walked from its end.
ListenerAtBackwards(ls, i) == ls[Len(ls) - i]

\* The listener forEach calls at position i (from 0)
ListenerAt(ls, i) == ls[i + 1]

\* Mutant of Persisted: the reducer's result of this dispatch is written, not
\* the store's variable.
PersistedReducerResult(frame, current) == Stringify(frame.next)

\* What dispatch writes under 'expense_tracker_state': JSON.stringify(state),
\* state being the store's variable when the write happens.
Persisted(frame, current) == Stringify(current)

MarkDisturbed(st) == Map(LAMBDA f : [f EXCEPT !.disturbed = TRUE], st)
MarkNested(st) == Map(LAMBDA f : [f EXCEPT !.nested = TRUE], st)

\* A subscribe or unsubscribe call made by the listener being notified: own
\* says that the listener named is the caller itself, nth which call of that
\* unsubscribe function it is.
StoreEvent(op, listener, nth) ==
    [op |-> op, listener |-> listener, nth |-> nth,
     own |-> IF Len(stack) = 0 THEN FALSE
             ELSE stack[Len(stack)].called[Len(stack[Len(stack)].called)] = listener]
Logged(st, event) == Map(LAMBDA f : [f EXCEPT !.events = Append(@, event)], st)

StoreFrame == UNCHANGED <<undoShown, prevOp, trace, bootDefault, impl, clock, shown, chart>>

\* dispatch(action), up to the start of listeners.forEach
storeDispatch(action) ==
    /\ CanCall
    /\ steps < MaxCalls
    /\ Len(stack) < MaxDepth
    /\ ~ReducerThrows(state, action)
    /\ state' = expenseReducer(state, action)
    /\ stack' = Call(MarkNested(stack),
                     Frame(action, state, expenseReducer(state, action)))
    /\ lastOp' = StoreOp("dispatch", 0, 0, listeners, NoFrame)
    /\ steps' = steps + 1
    /\ UNCHANGED <<storage, listeners, handles>>
    /\ StoreFrame

\* forEach calls the listener at the next index the array still holds
forEachCalls ==
    /\ Len(stack) > 0
    /\ Top.at = "loop"
    /\ Top.i < Top.len
    /\ Top.i < Len(listeners)
    /\ stack' = SetTop([Top EXCEPT !.i = @ + 1,
                                   !.at = "listener",
                                   !.called = Append(@, ListenerAt(listeners, Top.i)),
                                   !.seen = Append(@, state)])
    /\ lastOp' = StoreOp("call", 0, 0, listeners, NoFrame)
    /\ UNCHANGED <<state, storage, listeners, handles, steps>>
    /\ StoreFrame

\* forEach passes over an index the array no longer holds
forEachSkips ==
    /\ Len(stack) > 0
    /\ Top.at = "loop"
    /\ Top.i < Top.len
    /\ Top.i >= Len(listeners)
    /\ stack' = SetTop([Top EXCEPT !.i = @ + 1])
    /\ lastOp' = StoreOp("skip", 0, 0, listeners, NoFrame)
    /\ UNCHANGED <<state, storage, listeners, handles, steps>>
    /\ StoreFrame

\* the listener being notified returns
listenerReturns ==
    /\ Len(stack) > 0
    /\ Top.at = "listener"
    /\ stack' = SetTop([Top EXCEPT !.at = "loop"])
    /\ lastOp' = StoreOp("listener returns", 0, 0, listeners, NoFrame)
    /\ UNCHANGED <<state, storage, listeners, handles, steps>>
    /\ StoreFrame

\* the listener being notified throws: dispatch catches nothing, so every
\* dispatch in progress is left without its write to localStorage
listenerThrows ==
    /\ Len(stack) > 0
    /\ Top.at = "listener"
    /\ stack' = <<>>
    /\ lastOp' = StoreOp("throw", 0, 0, listeners, NoFrame)
    /\ UNCHANGED <<state, storage, listeners, handles, steps>>
    /\ StoreFrame

\* forEach is over: dispatch persists when state.persist, and returns
dispatchReturns ==
    /\ Len(stack) > 0
    /\ Top.at = "loop"
    /\ Top.i = Top.len
    /\ storage' = IF state.persist THEN <<Persisted(Top, state)>> ELSE storage
    /\ stack' = Return(state)
    /\ lastOp' = StoreOp("return", 0, 0, listeners, Top)
    /\ UNCHANGED <<state, listeners, handles, steps>>
    /\ StoreFrame

\* subscribe(listener)
subscribe(listener) ==
    /\ CanCall
    /\ steps < MaxCalls
    /\ Len(handles) < MaxHandles
    /\ listeners' = Append(listeners, listener)
    /\ handles' = Append(handles, [listener |-> listener, calls |-> 0])
    /\ stack' = Logged(MarkDisturbed(stack), StoreEvent("subscribe", listener, 0))
    /\ lastOp' = StoreOp("subscribe", Len(handles) + 1, 0, listeners, NoFrame)
    /\ steps' = steps + 1
    /\ UNCHANGED <<state, storage>>
    /\ StoreFrame

\* a call of the unsubscribe function that the h-th subscribe returned
unsubscribe(h) ==
    /\ CanCall
    /\ steps < MaxCalls
    /\ listeners' = Unsubscribed(listeners, handles[h].listener)
    /\ handles' = [handles EXCEPT ![h].calls = @ + 1]
    /\ stack' = Logged(MarkDisturbed(stack),
                       StoreEvent("unsubscribe", handles[h].listener, handles[h].calls + 1))
    /\ lastOp' = StoreOp("unsubscribe", h, handles[h].calls + 1, listeners, NoFrame)
    /\ steps' = steps + 1
    /\ UNCHANGED <<state, storage>>
    /\ StoreFrame

\* createStore(expenseReducer, initialState): the default state on an empty
\* localStorage, or a state whose persist flag is off beside a value stored
\* earlier.
StoreInit ==
    /\ \/ /\ state = defaultState
          /\ storage = <<>>
       \/ /\ state = [defaultState EXCEPT !.persist = FALSE]
          /\ storage = <<Stringify(ToggledState(1))>>
    /\ listeners = <<>>
    /\ handles = <<>>
    /\ stack = <<>>
    /\ lastOp = StoreOp("boot", 0, 0, <<>>, NoFrame)
    /\ prevOp = lastOp
    /\ undoShown = FALSE
    /\ trace = <<>>
    /\ bootDefault = TRUE
    /\ steps = 0
    /\ impl = "modular"
    /\ clock = 0
    /\ shown = Rendered(defaultState, 0)
    /\ chart = EmptyContainer

StoreNext ==
    \/ \E t \in {T1} : storeDispatch(Add(t))
    \/ \E id \in {1} : storeDispatch(Delete(id))
    \/ storeDispatch(Unknown)
    \/ forEachCalls
    \/ forEachSkips
    \/ listenerReturns
    \/ listenerThrows
    \/ dispatchReturns
    \/ \E l \in ListenerNames : subscribe(l)
    \/ \E h \in 1..Len(handles) : unsubscribe(h)

StoreSpec == StoreInit /\ [][StoreNext]_vars

-----------------------------------------------------------------------------
(* Claims *)

\* The payloads of the ADD_TRANSACTION actions of a sequence of actions.
RECURSIVE AddedPayloads(_)
AddedPayloads(actions) ==
    IF actions = <<>> THEN <<>>
    ELSE IF Head(actions).type = "ADD_TRANSACTION"
         THEN <<Head(actions).payload>> \o AddedPayloads(Tail(actions))
         ELSE AddedPayloads(Tail(actions))

OnlyAdds ==
    /\ bootDefault
    /\ \A i \in 1..Len(trace) : trace[i].type = "ADD_TRANSACTION"

\* C1: from the empty default state, after n ADD_TRANSACTION dispatches and no
\* other action, the transaction list is the n payloads in reverse dispatch
\* order (newest first).
C1_AddsNewestFirst ==
    OnlyAdds =>
        /\ Len(state.transactions) = Len(trace)
        /\ state.transactions = Reverse(AddedPayloads(trace))

C1_Witness ==
    /\ OnlyAdds
    /\ Len(trace) >= 3
    /\ state.transactions[1] # state.transactions[Len(trace)]

\* C2: the history never holds more than 50 entries, whatever is dispatched
\* (undo included), from an initial state with at most 50 entries.
C2_HistoryCapped == Len(state.history) <= HISTORY_CAP

\* A dispatch that recorded an entry on a history that was already full.
C2_Witness ==
    \E i \in 1..Len(lastOp.log) :
        /\ Len(lastOp.log[i].pre.history) = HISTORY_CAP
        /\ lastOp.log[i].action.type \in {"ADD_TRANSACTION", "DELETE_TRANSACTION"}
        /\ ~lastOp.log[i].threw
        /\ lastOp.log[i].post.history # lastOp.log[i].pre.history

\* The list holds an element equal to t.
Contains(txs, t) == \E i \in 1..Len(txs) : txs[i] = t

\* Some record of the list carries the id.
Present(txs, id) == \E i \in 1..Len(txs) : txs[i].k = "tx" /\ txs[i].id = id

\* The handler that ran last deleted an id present in the list and the one
\* before nothing else: delete, then at once undo.
DeleteThenUndo ==
    /\ lastOp.op = "undo"
    /\ prevOp.op = "delete"
    /\ Present(prevOp.pre.transactions, prevOp.arg)

\* C3: DELETE_TRANSACTION(id) of a present id followed at once by undo yields
\* a list that again holds a record with that id, equal field by field to the
\* record the delete removed and recorded.
C3_DeleteUndoRestores ==
    DeleteThenUndo =>
        /\ Present(state.transactions, prevOp.arg)
        /\ Contains(state.transactions, Find(prevOp.pre.transactions, prevOp.arg))

\* The delete removed the record and the undo brought it back.
C3_Witness ==
    /\ DeleteThenUndo
    /\ ~Present(lastOp.pre.transactions, prevOp.arg)
    /\ Contains(state.transactions, Find(prevOp.pre.transactions, prevOp.arg))

\* A dispatch of DELETE_TRANSACTION whose id matches no record of the list.
DeleteOfAbsent(d) ==
    /\ d.action.type = "DELETE_TRANSACTION"
    /\ ~Present(d.pre.transactions, d.action.payload)

\* C7: DELETE_TRANSACTION with an id that matches no record leaves the
\* transaction list as it was: same elements, same order.
C7_DeleteAbsentKeepsList ==
    \A i \in 1..Len(lastOp.log) :
        DeleteOfAbsent(lastOp.log[i]) =>
            lastOp.log[i].post.transactions = lastOp.log[i].pre.transactions

\* Such a delete ran on a list that holds records.
C7_Witness ==
    \E i \in 1..Len(lastOp.log) :
        /\ DeleteOfAbsent(lastOp.log[i])
        /\ ~lastOp.log[i].threw
        /\ Len(lastOp.log[i].pre.transactions) >= 2

\* C8 (as claimed): DELETE_TRANSACTION with an id that matches no record
\* records nothing: the history after the dispatch is the history before it,
\* and no entry with undefined data is pushed.
C8_DeleteAbsentRecordsNothing ==
    \A i \in 1..Len(lastOp.log) :
        DeleteOfAbsent(lastOp.log[i]) =>
            /\ lastOp.log[i].post.history = lastOp.log[i].pre.history
            /\ \A j \in 1..Len(state.history) : state.history[j].data # Undefined

\* C9 (as claimed): undo on a non-empty history pops the entry it reverses, so
\* the history is one entry shorter afterwards.
C9_UndoPopsHistory ==
    (lastOp.op = "undo" /\ Len(lastOp.pre.history) > 0) =>
        /\ Len(state.history) = Len(lastOp.pre.history) - 1
        /\ state.history = Tail(lastOp.pre.history)

\* C10 (as claimed): a file that is no JSON, or JSON that is no array, makes
\* the import handler alert an error and dispatch nothing, the state unchanged.
C10_BadImportAlerts ==
    (lastOp.op = "import" /\ (JSONParseThrows(lastOp.arg) \/ ~IsArray(lastOp.arg))) =>
        /\ lastOp.alert = "Invalid file format."
        /\ lastOp.log = <<>>
        /\ state = lastOp.pre

\* The list without the first occurrence of x.
RECURSIVE WithoutFirst(_, _)
WithoutFirst(s, x) ==
    IF s = <<>> THEN <<>>
    ELSE IF Head(s) = x THEN Tail(s)
         ELSE <<Head(s)>> \o WithoutFirst(Tail(s), x)

\* C4 (as claimed): an unsubscribe function touches only its own listener: its
\* first call removes that listener and no other, and every later call leaves
\* the registered listeners and their order as they were.
C4_UnsubscribeOnlyOwn ==
    lastOp.op = "unsubscribe" =>
        listeners = IF lastOp.nth = 1
                    THEN WithoutFirst(lastOp.before, handles[lastOp.handle].listener)
                    ELSE lastOp.before

\* The dispatch that returned last ran its pass with no subscribe and no
\* unsubscribe during it (and no throw, since it returned).
QuietPass == lastOp.op = "return" /\ ~lastOp.frame.disturbed

\* C5: on every dispatch, of an unrecognized kind too, each listener
\* registered at that moment is called exactly once, in subscription order,
\* after the snapshot was replaced (a listener reads the new state), provided
\* no listener subscribes, unsubscribes or throws during the pass.
C5_EachListenerOnceInOrder ==
    QuietPass =>
        /\ lastOp.frame.called = lastOp.frame.registered
        /\ ~lastOp.frame.nested =>
              \A k \in 1..Len(lastOp.frame.seen) :
                  lastOp.frame.seen[k] = lastOp.frame.next

\* Two different listeners were notified of a dispatch that changed the state.
C5_Witness ==
    /\ QuietPass
    /\ Len(lastOp.frame.called) >= 2
    /\ lastOp.frame.called[1] # lastOp.frame.called[2]
    /\ lastOp.frame.next # lastOp.frame.pre

\* C6: when a dispatch returns and the state's persist flag is true, the value
\* stored under 'expense_tracker_state' is the serialization of the state
\* getState() returns then, re-entrant dispatches during the pass included;
\* when the flag is false the stored value is the one found at the call.
C6_StoredIsCurrentState ==
    lastOp.op = "return" =>
        IF state.persist
        THEN storage = <<Stringify(state)>>
        ELSE storage = lastOp.frame.storageAtCall

\* A dispatch returned after a listener's re-entrant dispatch had replaced the
\* state the outer reducer step produced.
C6_Witness ==
    /\ lastOp.op = "return"
    /\ state.persist
    /\ lastOp.frame.nested
    /\ state # lastOp.frame.next
    /\ Len(stack) = 0

-----------------------------------------------------------------------------
(* Frame of the reducer: ReducerSpec *)

\* C11: in both scripts, reducing SET_CURRENCY(c) gives a state whose currency
\* is c and whose every other field is the one before.
C11_SetCurrencyReplacesCurrency ==
    (lastOp.op = "reduce" /\ lastOp.arg.type = "SET_CURRENCY")
        => state = [lastOp.pre EXCEPT !.currency = lastOp.arg.payload]

\* C12: SET_FILTER(p) gives the previous filters overridden by exactly the keys
\* of p and leaves transactions and history alone; {category: 'food'} followed
\* by {search: 'coffee'} leaves both set and dateRange, minPrice and maxPrice as
\* they were before the first of the two.
C12_SetFilterMerges ==
    (lastOp.op = "reduce" /\ lastOp.arg.type = "SET_FILTER") =>
        LET p == lastOp.arg.payload
            f == lastOp.pre.filters
            g == state.filters
        IN  /\ DOMAIN g = DOMAIN f \cup DOMAIN p
            /\ \A key \in DOMAIN p : g[key] = p[key]
            /\ \A key \in DOMAIN f \ DOMAIN p : g[key] = f[key]
            /\ state.transactions = lastOp.pre.transactions
            /\ state.history = lastOp.pre.history
            /\ ( /\ prevOp.op = "reduce"
                 /\ prevOp.arg = SetFilterAction([category |-> "food"])
                 /\ lastOp.arg = SetFilterAction([search |-> <<"c", "o", "f", "f", "e", "e">>]) )
                => /\ g.category = "food"
                   /\ g.search = <<"c", "o", "f", "f", "e", "e">>
                   /\ \A key \in {"dateRange", "minPrice", "maxPrice"} :
                          Read(g, key) = Read(prevOp.pre.filters, key)

C12_Witness ==
    /\ lastOp.op = "reduce"
    /\ prevOp.op = "reduce"
    /\ prevOp.arg = SetFilterAction([category |-> "food"])
    /\ lastOp.arg = SetFilterAction([search |-> <<"c", "o", "f", "f", "e", "e">>])
    /\ prevOp.pre.filters.dateRange = "week"
    /\ state.filters.category = "food"
    /\ state.filters.dateRange = "week"

SameBut(field) ==
    \A other \in DOMAIN lastOp.pre \ {field} : state[other] = lastOp.pre[other]

\* C13: ADD_TRANSACTION and DELETE_TRANSACTION leave theme, currency, filters
\* and persist as they were; SET_THEME changes only theme; SET_FILTER changes
\* only filters; an action of unknown kind changes nothing; no action changes
\* persist.
C13_UnnamedFieldsCarriedOver ==
    lastOp.op = "reduce" =>
        /\ DOMAIN state = DOMAIN lastOp.pre
        /\ state.persist = lastOp.pre.persist
        /\ lastOp.arg.type \in {"ADD_TRANSACTION", "DELETE_TRANSACTION"} =>
              /\ state.theme = lastOp.pre.theme
              /\ state.currency = lastOp.pre.currency
              /\ state.filters = lastOp.pre.filters
        /\ lastOp.arg.type = "SET_THEME" => SameBut("theme")
        /\ lastOp.arg.type = "SET_FILTER" => SameBut("filters")
        /\ lastOp.arg.type = "PING" => state = lastOp.pre

C13_Witness ==
    /\ lastOp.op = "reduce"
    /\ lastOp.arg.type = "SET_THEME"
    /\ state.theme # lastOp.pre.theme
    /\ Len(state.transactions) > 0
    /\ state.filters # initialStateOf(impl, <<>>).filters

-----------------------------------------------------------------------------
(* Re-entrant dispatch: StoreSpec *)

\* The calls of dispatch there is a record of: those in progress and the one
\* that returned last.
Frames ==
    { stack[p] : p \in 1..Len(stack) }
        \cup (IF lastOp.op = "return" THEN {lastOp.frame} ELSE {})

\* The dispatches nested in f that had returned before f invoked listener
\* number k.
ReturnedBefore(f, k) == { j \in 1..Len(f.inner) : f.inner[j].startedAt < k }

\* C14: a dispatch made by a listener runs its reducer step and its whole
\* notification pass before the outer dispatch invokes its next listener (it is
\* not queued), and the listeners the outer pass invokes afterwards observe the
\* state the nested dispatch left.
C14_NestedDispatchRunsFirst ==
    /\ \A p \in 1..(Len(stack) - 1) :
          /\ stack[p].at = "listener"
          /\ stack[p + 1].parentAt = stack[p].i
    /\ \A f \in Frames :
          /\ \A j \in 1..Len(f.inner) :
                /\ f.inner[j].pass = f.inner[j].len
                /\ f.inner[j].startedAt = f.inner[j].endedAt
          /\ \A k \in 1..Len(f.seen) :
                ReturnedBefore(f, k) # {} =>
                    f.seen[k] = f.inner[CHOOSE j \in ReturnedBefore(f, k) :
                                    \A h \in ReturnedBefore(f, k) : h <= j].state

C14_Witness ==
    /\ lastOp.op = "return"
    /\ Len(stack) = 0
    /\ Len(lastOp.frame.inner) = 1
    /\ lastOp.frame.inner[1].startedAt = 1
    /\ Len(lastOp.frame.seen) = 2
    /\ lastOp.frame.seen[2] # lastOp.frame.seen[1]
    /\ lastOp.frame.seen[2] = lastOp.frame.inner[1].state

-----------------------------------------------------------------------------
(* Import: Spec *)

\* C15: importing an array of n elements dispatches ADD_TRANSACTION for its
\* elements in file order, unchecked and with duplicates; when no listener
\* throws there are exactly n dispatches, each with its own notification pass,
\* and the list is the elements in reverse file order followed by the list
\* before.
C15_ImportAddsEach ==
    (lastOp.op = "import" /\ ~JSONParseThrows(lastOp.arg) /\ IsArray(lastOp.arg)) =>
        LET items == lastOp.arg.items
            log == lastOp.log
        IN  /\ Len(log) <= Len(items)
            /\ \A k \in 1..Len(log) : log[k].action = Add(items[k])
            /\ (\A k \in 1..Len(log) : ~log[k].threw) =>
                  /\ Len(log) = Len(items)
                  /\ state.transactions = Reverse(items) \o lastOp.pre.transactions
                  /\ \A k \in 1..Len(log) :
                        /\ log[k].post.transactions = <<items[k]>> \o log[k].pre.transactions
                        /\ k > 1 => log[k].pre = log[k - 1].post

C15_Witness ==
    /\ lastOp.op = "import"
    /\ lastOp.arg.items = <<T1, T1b>>
    /\ Len(lastOp.log) = 2
    /\ lastOp.alert = "Transactions imported successfully!"
    /\ Len(lastOp.pre.transactions) > 0
    /\ state.transactions = <<T1b, T1>> \o lastOp.pre.transactions

-----------------------------------------------------------------------------
(* The displayed list: ViewSpec *)

\* The transaction is among the rows shown.
Listed(t) == \E j \in 1..Len(shown.list) : shown.list[j] = t

\* A bound that is set: a number other than 0, so not absent, null or Infinity.
IsSet(bound) == bound.k = "num" /\ bound.v # 0

\* C16: the price part of the filter excludes a transaction exactly when
\* minPrice is set and non-zero and amount < minPrice, or maxPrice is set and
\* finite and amount > maxPrice; a bound that is 0, Infinity, absent or null
\* excludes nothing. With minPrice 10 and maxPrice 50, amount 5 is excluded,
\* 25 included, 100 excluded.
C16_PriceFilter ==
    LET f == state.filters
        min == Read(f, "minPrice")
        max == Read(f, "maxPrice")
    IN  /\ \A k \in 1..Len(state.transactions) :
              LET t == state.transactions[k]
              IN  (matchesSearch(f, t) /\ matchesCategory(f, t) /\ matchesDate(f, t, clock))
                    => (~Listed(t) <=> \/ (IsSet(min) /\ t.amount < min.v)
                                       \/ (IsSet(max) /\ t.amount > max.v))
        /\ ( /\ min = Num(10) /\ max = Num(50)
             /\ f.search = <<>> /\ f.category = "all" /\ f.dateRange = "all" )
              => (~Listed(L1) /\ Listed(L2) /\ ~Listed(L3))

C16_Witness ==
    /\ lastOp.op = "reload"
    /\ Read(state.filters, "minPrice") = Num(10)
    /\ Read(state.filters, "maxPrice") = Null
    /\ ~Listed(L1)
    /\ Listed(L2)
    /\ Listed(L3)

-----------------------------------------------------------------------------
(* What the page displays after a dispatch: Spec *)

\* The transactions of the state that pass every part of the filter.
Passing ==
    SelectSeq(state.transactions,
              LAMBDA t : IF PropertyReadThrows(t) THEN FALSE
                         ELSE /\ matchesSearch(state.filters, t)
                              /\ matchesCategory(state.filters, t)
                              /\ matchesDate(state.filters, t, clock)
                              /\ matchesMin(state.filters, t)
                              /\ matchesMax(state.filters, t))

\* C17: after every dispatch the displayed list is the subsequence, in state
\* order, of the transactions that satisfy the search, category, date-range,
\* minimum-price and maximum-price predicates all at once; with date range
\* 'week' a transaction dated more than 7 days before now is not displayed.
C17_ListShowsMatches ==
    Len(lastOp.log) > 0 =>
        /\ shown.list = Passing
        /\ state.filters.dateRange = "week" =>
              \A j \in 1..Len(shown.list) : shown.list[j].date >= clock - 14

\* The sum of the amounts of the transactions of one type.
RECURSIVE AmountsOf(_, _)
AmountsOf(txs, type) ==
    IF txs = <<>> THEN 0
    ELSE (IF PropertyReadThrows(Head(txs)) THEN 0
          ELSE IF Head(txs).type = type THEN Head(txs).amount ELSE 0)
         + AmountsOf(Tail(txs), type)

\* C18: after every dispatch the displayed income is the sum of the amounts of
\* the income transactions of the current state, the displayed expense that of
\* the expense transactions, and the displayed balance their difference: the
\* totals never lag behind the state.
C18_TotalsShowState ==
    Len(lastOp.log) > 0 =>
        /\ shown.totals.income.amount = AmountsOf(state.transactions, "income")
        /\ shown.totals.expense.amount = AmountsOf(state.transactions, "expense")
        /\ shown.totals.balance.amount =
              AmountsOf(state.transactions, "income")
                  - AmountsOf(state.transactions, "expense")

-----------------------------------------------------------------------------
(* The pie chart: ChartSpec *)

\* The sum of the values of the first n slices drawn.
RECURSIVE ValuesUpTo(_)
ValuesUpTo(n) == IF n = 0 THEN 0 ELSE ValuesUpTo(n - 1) + chart.data[n].value

\* C19: renderPieChart writes the 'No data to display' placeholder and no
\* chart when the values sum to zero (no slice, or every value zero), and a
\* chart of exactly one wedge per slice otherwise.
C19_PlaceholderIffZeroTotal ==
    lastOp.op = "chart" =>
        IF ValuesUpTo(Len(chart.data)) = 0
        THEN chart.out.placeholder /\ Len(chart.out.paths) = 0
        ELSE ~chart.out.placeholder /\ Len(chart.out.paths) = Len(chart.data)

C19_Witness ==
    /\ lastOp.op = "chart"
    /\ Len(chart.data) = 2
    /\ chart.out.placeholder

\* C20: for a non-zero total the wedges come in input order; wedge i starts
\* where wedge i-1 ended, the first at 0, and spans value_i/total of the
\* circle, so the last ends at the full circle; the large-arc flag is 1 exactly
\* when the value is more than half the total. Values 1, 1, 2 give a quarter,
\* a quarter and a half, each with flag 0. (Angles in units of 1/total of the
\* circle.)
C20_WedgesInInputOrder ==
    (lastOp.op = "chart" /\ ValuesUpTo(Len(chart.data)) # 0) =>
        LET data == chart.data
            w == chart.out.paths
            total == ValuesUpTo(Len(data))
        IN  /\ Len(w) = Len(data)
            /\ chart.out.total = total
            /\ \A i \in 1..Len(w) :
                  /\ w[i].label = data[i].label
                  /\ w[i].from = (IF i = 1 THEN 0 ELSE w[i - 1].to)
                  /\ w[i].to - w[i].from = data[i].value
                  /\ w[i].largeArcFlag \in {0, 1}
                  /\ w[i].largeArcFlag = 1 <=> 2 * data[i].value > total
            /\ w[Len(w)].to = total
            /\ (Len(data) = 3 /\ data[1].value = 1 /\ data[2].value = 1 /\ data[3].value = 2)
                  => /\ 4 * (w[1].to - w[1].from) = total
                     /\ 4 * (w[2].to - w[2].from) = total
                     /\ 2 * (w[3].to - w[3].from) = total
                     /\ \A i \in 1..3 : w[i].largeArcFlag = 0

C20_Witness ==
    /\ lastOp.op = "chart"
    /\ Len(chart.data) = 3
    /\ chart.data[1].value = 1
    /\ chart.data[2].value = 1
    /\ chart.data[3].value = 2
    /\ Len(chart.out.paths) = 3
    /\ chart.out.paths[3].from = 2
    /\ chart.out.paths[3].to = 4

-----------------------------------------------------------------------------
(* The undo stack: Spec *)

\* The dispatches of the last handler in which the reducer returned.
Reduced == { k \in 1..Len(lastOp.log) : ~ReducerThrows(lastOp.log[k].pre, lastOp.log[k].action) }

\* C21: after every ADD_TRANSACTION or DELETE_TRANSACTION the head of history
\* records the kind of the action and the transaction it added or removed, and
\* the rest is the history before, in its order; past the cap of 50 it is the
\* oldest (last) entry that is dropped, never the newest.
C21_HistoryHeadIsLatest ==
    \A k \in Reduced :
        LET d == lastOp.log[k]
            before == d.pre.history
            after == d.post.history
        IN  /\ d.action.type = "ADD_TRANSACTION" =>
                  after[1] = [type |-> "ADD", data |-> d.action.payload]
            /\ d.action.type = "DELETE_TRANSACTION" =>
                  after[1] = [type |-> "DELETE",
                              data |-> Find(d.pre.transactions, d.action.payload)]
            /\ d.action.type \in {"ADD_TRANSACTION", "DELETE_TRANSACTION"} =>
                  /\ Len(after) = Min(Len(before) + 1, HISTORY_CAP)
                  /\ \A j \in 2..Len(after) : after[j] = before[j - 1]

C21_Witness ==
    /\ lastOp.op = "delete"
    /\ Len(lastOp.log) = 1
    /\ Len(lastOp.pre.history) = HISTORY_CAP
    /\ Len(state.history) = HISTORY_CAP
    /\ state.history[1] = [type |-> "DELETE", data |-> T1]
    /\ state.history[HISTORY_CAP] = lastOp.pre.history[HISTORY_CAP - 1]

-----------------------------------------------------------------------------
(* Failed imports, duplicates and undefined elements: Spec *)

\* C22 (as claimed): an import that ends with the 'Invalid file format.' alert
\* leaves the state of the store as it was before the import began, also when
\* the failure comes part-way through the ADD_TRANSACTION dispatches.
C22_FailedImportKeepsState ==
    (lastOp.op = "import" /\ lastOp.alert = "Invalid file format.") => state = lastOp.pre

\* How many elements of the list equal x.
Count(txs, x) == Cardinality({ i \in 1..Len(txs) : txs[i] = x })

\* C24 (as claimed): delete followed at once by undo leaves the list with the
\* same records in the same multiplicities as before the delete, the restored
\* record first, also on lists built by import.
C24_DeleteUndoKeepsMultiset ==
    DeleteThenUndo =>
        /\ state.transactions[1] = Find(prevOp.pre.transactions, prevOp.arg)
        /\ Len(state.transactions) = Len(prevOp.pre.transactions)
        /\ \A i \in 1..Len(prevOp.pre.transactions) :
              Count(state.transactions, prevOp.pre.transactions[i])
                  = Count(prevOp.pre.transactions, prevOp.pre.transactions[i])

\* Every record handed to ADD_TRANSACTION by the form or by an import was well
\* formed (the undefined that undo hands over is not an input).
WellFormedInputs ==
    \A k \in 1..Len(trace) :
        trace[k].type = "ADD_TRANSACTION" => trace[k].payload # Null

\* C25 (as claimed): with well-formed records added, any id deleted and undo,
\* every element of the transaction list is a defined transaction record: an
\* undefined element is never inserted.
C25_NoUndefinedElement ==
    WellFormedInputs =>
        \A i \in 1..Len(state.transactions) : state.transactions[i].k = "tx"

-----------------------------------------------------------------------------
(* Reload: Spec *)

\* Every dispatch up to here returned normally: the last handler met no
\* exception and started from a state the listener can render.
NormalSoFar ==
    /\ ~lastOp.threw
    /\ ~RenderThrows(lastOp.pre)
    /\ \A k \in 1..Len(lastOp.log) : ~lastOp.log[k].threw

\* A maximum price that bounds nothing.
UnsetMax(v) == IF Falsy(v) THEN TRUE ELSE v = Infinity

\* The state a boot reads back against the state that was held in memory.
SameOnReload(loaded, held) ==
    /\ loaded.transactions = held.transactions
    /\ loaded.history = held.history
    /\ loaded.theme = held.theme
    /\ loaded.currency = held.currency
    /\ DOMAIN loaded.filters = DOMAIN held.filters
    /\ \A key \in DOMAIN held.filters \ {"maxPrice"} : loaded.filters[key] = held.filters[key]
    /\ IF Read(loaded.filters, "maxPrice") = Read(held.filters, "maxPrice") THEN TRUE
       ELSE UnsetMax(Read(loaded.filters, "maxPrice")) /\ UnsetMax(Read(held.filters, "maxPrice"))

-----------------------------------------------------------------------------
(* A listener that unsubscribes itself: StoreSpec *)

\* During the dispatch that returned last, nothing was subscribed, and every
\* unsubscribe was a listener's first call of its own unsubscribe function
\* while it was being notified.
OnlySelfUnsubscribes ==
    /\ lastOp.op = "return"
    /\ \A k \in 1..Len(lastOp.frame.events) :
          /\ lastOp.frame.events[k].op = "unsubscribe"
          /\ lastOp.frame.events[k].own
          /\ lastOp.frame.events[k].nth = 1

\* How often the listener occurs in the sequence.
Times(ls, l) == Cardinality({ i \in 1..Len(ls) : ls[i] = l })

\* C26 (as claimed): when a listener calls its own unsubscribe function while
\* it is notified, every other listener registered at the start of the
\* dispatch is still invoked exactly once during that pass.
C26_SelfUnsubscribeSkipsNobody ==
    OnlySelfUnsubscribes =>
        \A l \in ListenerNames :
            (\A k \in 1..Len(lastOp.frame.events) : lastOp.frame.events[k].listener # l)
                => Times(lastOp.frame.called, l) = Times(lastOp.frame.registered, l)

-----------------------------------------------------------------------------
(* The undo control: Spec *)

\* C27 (as claimed): whenever the page is initialised and no handler is
\* running, the undo control is displayed exactly when the history of the
\* current state is non-empty, directly after boot from a persisted state with
\* a non-empty history as well as after every dispatch.
C27_UndoShownIffHistory == undoShown <=> Len(state.history) > 0

-----------------------------------------------------------------------------
(* A slice that is the whole chart: ChartSpec *)

\* C28 (as claimed): for a non-zero total, every wedge drawn for a slice with
\* a positive value has its arc start point and its arc end point at different
\* positions of the circle, a single slice that carries the whole total
\* included.
C28_WedgeEndsDiffer ==
    (lastOp.op = "chart" /\ ~chart.out.placeholder) =>
        \A i \in 1..Len(chart.out.paths) :
            chart.data[i].value > 0 => chart.out.paths[i].xy1 # chart.out.paths[i].xy2

=============================================================================
